---- MODULE Spec2Model ----
(***************************************************************************)
(* Model of ports/samd/machine_pin.c: the SAMD port's machine.Pin object,  *)
(* its pin.irq() interrupt-line registry, the reset hook                   *)
(* pin_irq_deinit_all() and the EIC interrupt service routine.             *)
(*                                                                         *)
(* Registers are modelled by what a write does to them: INTENSET/INTENCLR  *)
(* are the set/clear views of one interrupt-enable mask, INTFLAG is        *)
(* write-one-to-clear, CONFIG[0..1] are 32-bit words kept as their eight   *)
(* 4-bit sense fields.  A register mask is the set of its set bit indices. *)
(***************************************************************************)
EXTENDS Integers, Sequences, FiniteSets, TLC

\* ------------------------------------------------------------------------
\* Program constants
GPIO_MODE_IN == 0
GPIO_MODE_OUT == 1
GPIO_MODE_OPEN_DRAIN == 2
GPIO_STRENGTH_2MA == 0
GPIO_STRENGTH_8MA == 1
GPIO_IRQ_EDGE_RISE == 1
GPIO_IRQ_EDGE_FALL == 2
\* number of EIC lines: machine_pin_irq_objects[16]
NUM_EIC == 16
\* pin_id of a freshly allocated irq object (0xff)
PIN_ID_UNBOUND == 255
\* default of the trigger argument of pin.irq()
DEFAULT_TRIGGER == 3
\* mp_const_none as a handler value; real handlers are 1..NumHandlers
mp_const_none == 0
\* SAMD21: the one NVIC line of the EIC
SAMD21_EIC_IRQ == 4
\* SAMD51: NVIC line of EIC line 0
SAMD51_EIC_IRQ_BASE == 12
\* SAMD51: first NVIC line pin_irq_deinit_all does not disable
SAMD51_DEINIT_IRQ_END == 20
\* MP_IRQ_INFO_FLAGS / MP_IRQ_INFO_TRIGGERS selectors of the info method
MP_IRQ_INFO_FLAGS == 0
MP_IRQ_INFO_TRIGGERS == 1
\* pull modes, in the order of pull_str[]
GPIO_PULL_OFF == 0
GPIO_PULL_UP == 1
GPIO_PULL_DOWN == 2
\* requests of the pin protocol's ioctl
MP_PIN_READ == 1
MP_PIN_WRITE == 2

\* ------------------------------------------------------------------------
\* Bounds of the model
\* number of distinct handler callables
NumHandlers == 1
\* explicit trigger arguments range over 1..MaxTrigger
MaxTrigger == 2
\* integer arguments of Pin.init and Pin.drive range over -1..MaxIntArg
MaxIntArg == 2

Handlers == 1..NumHandlers
HandlerArgs == {mp_const_none} \cup Handlers
Triggers == 1..MaxTrigger
\* values an uninitialised field of a new irq object may hold
UninitValues == {0, 1}
Lines == 0..(NUM_EIC - 1)
MCUs == {"SAMD21", "SAMD51"}

\* The pins of the model: PA02, PA18 (both on EXTINT2) and PB08 (EXTINT8).
PinIds == {2, 18, 40}
\* The two pins that share EXTINT2.
LinePins == {2, 18}

\* get_pin_af_info(id)->eic: the EXTINT line a pin is wired to
pin_eic(id) == id % 16

\* ------------------------------------------------------------------------
\* Bit operations on naturals
RECURSIVE BitOr(_, _)
BitOr(a, b) ==
    IF a = 0 THEN b
    ELSE IF b = 0 THEN a
    ELSE (IF a % 2 = 1 \/ b % 2 = 1 THEN 1 ELSE 0) + 2 * BitOr(a \div 2, b \div 2)

RECURSIVE Pow2(_)
Pow2(n) == IF n = 0 THEN 1 ELSE 2 * Pow2(n - 1)

\* nibble j of the uint32_t value (x << (k * 4))
ShlNibble(x, k, j) == IF j < k THEN 0 ELSE (x \div Pow2((j - k) * 4)) % 16

\* (1 << eic_id) as a mask
Bit(eic_id) == {eic_id}

\* ------------------------------------------------------------------------
\* State
VARIABLES
    mcu,                        \* build variant: MCU_SAMD21 or MCU_SAMD51
    machine_pin_irq_objects,    \* MP_STATE_PORT(machine_pin_irq_objects)[16]
    INTEN,                      \* EIC interrupt-enable mask (INTENSET/INTENCLR)
    INTFLAG,                    \* EIC->INTFLAG
    CONFIG,                     \* EIC->CONFIG[0..1]
    ENABLE,                     \* EIC->CTRL(A).bit.ENABLE
    NVIC,                       \* enabled NVIC interrupt numbers
    pin_dir,                    \* PORT DIR per pin: "IN", "OUT" or "OFF"
    pin_out,                    \* PORT OUT level per pin
    pin_pull,                   \* pull mode per pin
    open_drain_mask,            \* machine_pin_open_drain_mask
    pin_drvstr,                 \* PINCFG.DRVSTR per pin
    call,                       \* the configuration call in progress and its position
    last                        \* the last operation, its arguments and outcome

irqvars == <<machine_pin_irq_objects, INTEN, INTFLAG, CONFIG, ENABLE, NVIC>>
gpiovars == <<pin_dir, pin_out, pin_pull, open_drain_mask, pin_drvstr>>
vars == <<mcu, machine_pin_irq_objects, INTEN, INTFLAG, CONFIG, ENABLE, NVIC,
          pin_dir, pin_out, pin_pull, open_drain_mask, pin_drvstr, call, last>>

\* no configuration call is in progress
Idle == [op |-> "idle"]

\* a NULL entry of machine_pin_irq_objects
NULL == [null |-> TRUE]

\* ------------------------------------------------------------------------
\* Register writes
\* EIC->INTENCLR.reg = w : every bit written as one is disabled
WriteINTENCLR(inten, w) == inten \ w
\* EIC->INTENSET.reg = w : every bit written as one is enabled
WriteINTENSET(inten, w) == inten \cup w
\* EIC->INTFLAG.reg = w : every bit written as one is cleared
WriteINTFLAG(flag, w) == flag \ w

\* the 4-bit sense field of a line in CONFIG[eic_id / 8]
SenseField(config, eic_id) == config[eic_id \div 8][eic_id % 8]

\* EIC->CONFIG[eic_id / 8].reg |= trigger << ((eic_id % 8) * 4)
SetChannelMode(config, eic_id, trigger) ==
    [config EXCEPT ![eic_id \div 8] =
        [j \in 0..7 |-> BitOr(@[j], ShlNibble(trigger, eic_id % 8, j))]]

\* irq_num of machine_pin_irq
irq_num(m, eic_id) == IF m = "SAMD21" THEN SAMD21_EIC_IRQ ELSE eic_id + SAMD51_EIC_IRQ_BASE

\* ------------------------------------------------------------------------
\* machine_pin_irq
\* variant: only a record still holding the sentinel is taken as in use
IrqAlreadyUsed_SentinelOnly(irq, id) ==
    irq # NULL /\ irq.pin_id # id /\ irq.pin_id = PIN_ID_UNBOUND

\* the "IRQ already used" test
IrqAlreadyUsed(irq, id) == irq # NULL /\ irq.pin_id # id

\* m_new_obj + initialisation; flags and trigger are not initialised
NewIrqObj(id, f, t) ==
    [handler |-> mp_const_none, ishard |-> FALSE, parent |-> id,
     flags |-> f, trigger |-> t, pin_id |-> PIN_ID_UNBOUND]

\* variant: the latched flags are not reset
UpdateIrqData_KeepFlags(irq, handler, hard, trigger, id) ==
    [irq EXCEPT !.handler = handler, !.ishard = hard,
                !.trigger = trigger, !.pin_id = id]

\* variant: the line index is stored as the owner instead of the pin id
UpdateIrqData_StoreLine(irq, handler, hard, trigger, id) ==
    [irq EXCEPT !.handler = handler, !.ishard = hard, !.flags = 0,
                !.trigger = trigger, !.pin_id = pin_eic(id)]

\* "Update IRQ data."
UpdateIrqData(irq, handler, hard, trigger, id) ==
    [irq EXCEPT !.handler = handler, !.ishard = hard, !.flags = 0,
                !.trigger = trigger, !.pin_id = id]

\* variant: the INTENCLR writes are missing
DisableLine_NoWrite(inten, eic_id) == inten

\* the two INTENCLR writes before the update
DisableLine(inten, eic_id) == WriteINTENCLR(WriteINTENCLR(inten, Bit(eic_id)), Bit(eic_id))

\* "Enable IRQ if a handler is given.": INTENSET write
EnableLine(inten, eic_id) == WriteINTENSET(inten, Bit(eic_id))

\* EIC->INTFLAG.reg |= (1 << eic_id): read, or, write back
ClearFlagRMW(flag, mask) == WriteINTFLAG(flag, flag \cup mask)

NoArgs == [given |-> FALSE, handler |-> mp_const_none, trigger |-> DEFAULT_TRIGGER, hard |-> FALSE]

\* pin.irq() with no argument, or with arguments (omitted ones at their defaults)
IrqArgs ==
    {NoArgs} \cup
    [given : {TRUE}, handler : HandlerArgs, trigger : Triggers, hard : BOOLEAN]

\* pin.irq(), pin.irq(handler) and pin.irq(None)
BasicIrqArgs ==
    {NoArgs} \cup
    [given : {TRUE}, handler : HandlerArgs, trigger : {DEFAULT_TRIGGER}, hard : {FALSE}]

\* the trigger the irq object's trigger method is called with
BasicTriggers == {GPIO_IRQ_EDGE_RISE}

machine_pin_irq(self, a) ==
    LET eic_id == pin_eic(self)
        irq0 == machine_pin_irq_objects[eic_id]
    IN
    IF IrqAlreadyUsed(irq0, self) THEN
        /\ last' = [op |-> "machine_pin_irq", pin |-> self, args |-> a,
                    prior |-> irq0, err |-> "IRQ already used"]
        /\ UNCHANGED <<mcu, call, irqvars, gpiovars>>
    ELSE
        \E f \in (IF irq0 = NULL /\ ~a.given THEN UninitValues ELSE {0}),
           t \in (IF irq0 = NULL /\ ~a.given THEN UninitValues ELSE {0}) :
        \* the pin multiplexer and the EIC clock enables written here are read
        \* nowhere in this file and are left out of the state
        LET irq1 == IF irq0 = NULL THEN NewIrqObj(self, f, t) ELSE irq0
            irq2 == UpdateIrqData(irq1, a.handler, a.hard, a.trigger, self)
            inten1 == DisableLine(INTEN, eic_id)
            arm == a.handler # mp_const_none
        IN
        /\ last' = [op |-> "machine_pin_irq", pin |-> self, args |-> a,
                    prior |-> irq0, err |-> ""]
        /\ IF a.given THEN
              /\ machine_pin_irq_objects' = [machine_pin_irq_objects EXCEPT ![eic_id] = irq2]
              /\ INTEN' = IF arm THEN EnableLine(inten1, eic_id) ELSE inten1
              /\ CONFIG' = IF arm THEN SetChannelMode(CONFIG, eic_id, irq2.trigger) ELSE CONFIG
              /\ INTFLAG' = IF arm THEN ClearFlagRMW(INTFLAG, Bit(eic_id)) ELSE INTFLAG
              /\ ENABLE' = TRUE
              /\ NVIC' = (NVIC \ {irq_num(mcu, eic_id)}) \cup {irq_num(mcu, eic_id)}
           ELSE
              /\ machine_pin_irq_objects' = [machine_pin_irq_objects EXCEPT ![eic_id] = irq1]
              /\ UNCHANGED <<INTEN, INTFLAG, CONFIG, ENABLE, NVIC>>
        /\ UNCHANGED <<mcu, call, gpiovars>>

\* ------------------------------------------------------------------------
\* pin_irq_deinit_all
\* variant: the loop stops after the first eight pointers
ClearIrqObjects_FirstEight(objs) == [i \in Lines |-> IF i < 8 THEN NULL ELSE objs[i]]

\* the loop that clears the irq object pointers
ClearIrqObjects(objs) == [i \in Lines |-> NULL]

\* the NVIC lines disabled by the reset hook
DeinitNvicLines(m) ==
    IF m = "SAMD21" THEN {SAMD21_EIC_IRQ}
    ELSE SAMD51_EIC_IRQ_BASE..(SAMD51_DEINIT_IRQ_END - 1)

pin_irq_deinit_all ==
    /\ INTEN' = WriteINTENCLR(INTEN, Lines)
    /\ machine_pin_irq_objects' = ClearIrqObjects(machine_pin_irq_objects)
    /\ NVIC' = NVIC \ DeinitNvicLines(mcu)
    /\ last' = [op |-> "pin_irq_deinit_all"]
    /\ UNCHANGED <<mcu, call, INTFLAG, CONFIG, ENABLE, gpiovars>>

\* ------------------------------------------------------------------------
\* EIC_Handler
\* mp_irq_handler(&irq->base): the callable is run unless it is None
mp_irq_handler(eic_id, irq) ==
    IF irq.handler # mp_const_none
    THEN <<[eic_id |-> eic_id, handler |-> irq.handler, ishard |-> irq.ishard,
            parent |-> irq.parent, flags |-> irq.flags]>>
    ELSE <<>>

\* EIC->INTFLAG.reg |= mask; // clear the ISR flag
ClearISRFlag(flag, mask) == WriteINTFLAG(flag, flag \cup mask)

\* variant: the break follows the first pending line, record or not
RECURSIVE EIC_scan_BreakAlways(_, _, _, _)
EIC_scan_BreakAlways(eic_id, isr, flag, objs) ==
    IF eic_id >= NUM_EIC THEN
        [flag |-> flag, objs |-> objs, serviced |-> <<>>, invoked |-> <<>>]
    ELSE IF eic_id \in isr THEN
        LET flag1 == ClearISRFlag(flag, Bit(eic_id))
            irq == objs[eic_id]
        IN  IF irq # NULL THEN
                LET irq1 == [irq EXCEPT !.flags = irq.trigger]
                IN  [flag |-> flag1,
                     objs |-> [objs EXCEPT ![eic_id] = irq1],
                     serviced |-> <<eic_id>>,
                     invoked |-> mp_irq_handler(eic_id, irq1)]
            ELSE [flag |-> flag1, objs |-> objs, serviced |-> <<>>, invoked |-> <<>>]
    ELSE EIC_scan_BreakAlways(eic_id + 1, isr, flag, objs)

\* variant: the handler is run before the flags are latched
RECURSIVE EIC_scan_InvokeBeforeLatch(_, _, _, _)
EIC_scan_InvokeBeforeLatch(eic_id, isr, flag, objs) ==
    IF eic_id >= NUM_EIC THEN
        [flag |-> flag, objs |-> objs, serviced |-> <<>>, invoked |-> <<>>]
    ELSE IF eic_id \in isr THEN
        LET flag1 == ClearISRFlag(flag, Bit(eic_id))
            irq == objs[eic_id]
        IN  IF irq # NULL THEN
                LET irq1 == [irq EXCEPT !.flags = irq.trigger]
                IN  [flag |-> flag1,
                     objs |-> [objs EXCEPT ![eic_id] = irq1],
                     serviced |-> <<eic_id>>,
                     invoked |-> mp_irq_handler(eic_id, irq)]
            ELSE EIC_scan_InvokeBeforeLatch(eic_id + 1, isr, flag1, objs)
    ELSE EIC_scan_InvokeBeforeLatch(eic_id + 1, isr, flag, objs)

\* the for loop from eic_id on: result registers, objects, handler calls
RECURSIVE EIC_scan(_, _, _, _)
EIC_scan(eic_id, isr, flag, objs) ==
    IF eic_id >= NUM_EIC THEN
        [flag |-> flag, objs |-> objs, serviced |-> <<>>, invoked |-> <<>>]
    ELSE IF eic_id \in isr THEN
        LET flag1 == ClearISRFlag(flag, Bit(eic_id))
            irq == objs[eic_id]
        IN  IF irq # NULL THEN
                LET irq1 == [irq EXCEPT !.flags = irq.trigger]
                IN  [flag |-> flag1,
                     objs |-> [objs EXCEPT ![eic_id] = irq1],
                     serviced |-> <<eic_id>>,
                     invoked |-> mp_irq_handler(eic_id, irq1)]
            ELSE EIC_scan(eic_id + 1, isr, flag1, objs)
    ELSE EIC_scan(eic_id + 1, isr, flag, objs)

\* the controller requests the interrupt: an enabled line is pending and its
\* NVIC line is enabled. The request stays active until the flag is cleared
\* or the line is masked; disabling the EIC does not withdraw it.
EicInterruptRequested ==
    \E l \in INTFLAG \cap INTEN : irq_num(mcu, l) \in NVIC

EIC_Handler ==
    /\ EicInterruptRequested
    /\ LET isr == INTFLAG
           r == EIC_scan(0, isr, INTFLAG, machine_pin_irq_objects)
       IN  /\ INTFLAG' = r.flag
           /\ machine_pin_irq_objects' = r.objs
           /\ last' = [op |-> "EIC_Handler", isr |-> isr,
                       serviced |-> r.serviced, invoked |-> r.invoked]
    /\ UNCHANGED <<mcu, call, INTEN, CONFIG, ENABLE, NVIC, gpiovars>>

\* an edge on a line whose sense field is programmed latches its pending flag
EdgeEvent(eic_id) ==
    /\ ENABLE
    /\ SenseField(CONFIG, eic_id) # 0
    /\ eic_id \notin INTFLAG
    /\ INTFLAG' = INTFLAG \cup Bit(eic_id)
    /\ last' = [op |-> "EdgeEvent"]
    /\ UNCHANGED <<mcu, call, machine_pin_irq_objects, INTEN, CONFIG, ENABLE, NVIC, gpiovars>>

\* ------------------------------------------------------------------------
\* irq methods: trigger and info
RECURSIVE find_eic_id_from(_, _, _)
find_eic_id_from(eic_id, objs, pin) ==
    IF eic_id >= NUM_EIC THEN PIN_ID_UNBOUND
    ELSE IF objs[eic_id] # NULL /\ objs[eic_id].pin_id = pin THEN eic_id
    ELSE find_eic_id_from(eic_id + 1, objs, pin)

find_eic_id(objs, pin) == find_eic_id_from(0, objs, pin)

\* EIC->INTENCLR.reg |= (1 << eic_id): INTENCLR reads back the enable mask
MaskLineRMW(inten, eic_id) == WriteINTENCLR(inten, inten \cup Bit(eic_id))
\* EIC->INTENSET.reg |= (1 << eic_id): INTENSET reads back the enable mask
UnmaskLineRMW(inten, eic_id) == WriteINTENSET(inten, inten \cup Bit(eic_id))

machine_pin_irq_trigger(self, new_trigger) ==
    LET eic_id == find_eic_id(machine_pin_irq_objects, self)
    IN
    /\ IF eic_id # PIN_ID_UNBOUND THEN
          /\ INTEN' = UnmaskLineRMW(MaskLineRMW(INTEN, eic_id), eic_id)
          /\ machine_pin_irq_objects' =
                [machine_pin_irq_objects EXCEPT ![eic_id].flags = 0,
                                                ![eic_id].trigger = new_trigger]
       ELSE UNCHANGED <<INTEN, machine_pin_irq_objects>>
    /\ last' = [op |-> "machine_pin_irq_trigger", pin |-> self,
                new_trigger |-> new_trigger]
    /\ UNCHANGED <<mcu, call, INTFLAG, CONFIG, ENABLE, NVIC, gpiovars>>

machine_pin_irq_info(objs, self, info_type) ==
    LET eic_id == find_eic_id(objs, self)
    IN  IF eic_id # PIN_ID_UNBOUND THEN
            IF info_type = MP_IRQ_INFO_FLAGS THEN objs[eic_id].flags
            ELSE IF info_type = MP_IRQ_INFO_TRIGGERS THEN objs[eic_id].trigger
            ELSE 0
        ELSE 0

\* ------------------------------------------------------------------------
\* Direction/level driver
\* an optional argument: None, or an object holding an integer
None == <<>>
Some(n) == <<n>>
IntArgs == (-1)..MaxIntArg
OptInt(S) == {None} \cup {Some(n) : n \in S}

\* GPIO_IS_OPEN_DRAIN(id)
GPIO_IS_OPEN_DRAIN(mask, id) == id \in mask

\* conversion of an integer to a C bool
ToBool(n) == IF n # 0 THEN 1 ELSE 0

\* the pin state as a record, for the helpers below
PinState == [dir |-> pin_dir, out |-> pin_out, pull |-> pin_pull,
             od |-> open_drain_mask, drv |-> pin_drvstr]

\* mp_hal_pin_write / gpio_set_pin_level
mp_hal_pin_write(st, id, v) == [st EXCEPT !.out[id] = v]
\* mp_hal_pin_input
mp_hal_pin_input(st, id) == [st EXCEPT !.dir[id] = "IN", !.od = @ \ {id}]
\* mp_hal_pin_output
mp_hal_pin_output(st, id) == [st EXCEPT !.dir[id] = "OUT", !.od = @ \ {id}]
\* mp_hal_pin_od_high: release the line, pulled high
mp_hal_pin_od_high(st, id) == [st EXCEPT !.dir[id] = "IN", !.pull[id] = GPIO_PULL_UP]
\* mp_hal_pin_od_low: drive the line low
mp_hal_pin_od_low(st, id) == [st EXCEPT !.dir[id] = "OUT", !.out[id] = 0]
\* mp_hal_pin_open_drain: flag the pin and release the line
mp_hal_pin_open_drain(st, id) == [mp_hal_pin_od_high(st, id) EXCEPT !.od = @ \cup {id}]
\* gpio_set_pin_pull_mode: "The function sets the pin to INPUT."
gpio_set_pin_pull_mode(st, id, pull) ==
    IF pull = GPIO_PULL_OFF THEN [st EXCEPT !.pull[id] = GPIO_PULL_OFF]
    ELSE IF pull \in {GPIO_PULL_UP, GPIO_PULL_DOWN}
         THEN [st EXCEPT !.pull[id] = pull, !.dir[id] = "IN"]
    ELSE st
\* mp_hal_get_pin_direction(id) == GPIO_DIRECTION_OUT
IsDirectionOut(st, id) == st.dir[id] = "OUT"
\* mp_hal_get_pin_direction: the pin's bit of the PORT DIR register
mp_hal_get_pin_direction(st, id) == IF st.dir[id] = "OUT" THEN 1 ELSE 0
\* gpio_toggle_pin_level: flips the pin's bit of the PORT OUT register
gpio_toggle_pin_level(st, id) == [st EXCEPT !.out[id] = 1 - @]
\* mp_hal_pin_read: the levels the pin can be observed at. An output reads
\* back the level it drives, an input the level of the line: its pull level,
\* or whatever the floating line carries.
mp_hal_pin_read(st, id) ==
    IF st.dir[id] = "OUT" THEN {st.out[id]}
    ELSE IF st.pull[id] = GPIO_PULL_UP THEN {1}
    ELSE IF st.pull[id] = GPIO_PULL_DOWN THEN {0}
    ELSE {0, 1}

SetPinState(st) ==
    /\ pin_dir' = st.dir
    /\ pin_out' = st.out
    /\ pin_pull' = st.pull
    /\ open_drain_mask' = st.od
    /\ pin_drvstr' = st.drv

\* pin_validate_drive(bool strength): TRUE when it raises
pin_validate_drive(strength) ==
    strength # GPIO_STRENGTH_2MA /\ strength # GPIO_STRENGTH_8MA

\* "set initial value (do this before configuring mode/pull)"
InitValue(st, id, value) ==
    IF value # None THEN mp_hal_pin_write(st, id, ToBool(value[1])) ELSE st

\* "configure mode"
InitMode(st, id, mode) ==
    IF mode = None THEN st
    ELSE IF mode[1] = GPIO_MODE_IN THEN mp_hal_pin_input(st, id)
    ELSE IF mode[1] = GPIO_MODE_OUT THEN mp_hal_pin_output(st, id)
    ELSE IF mode[1] = GPIO_MODE_OPEN_DRAIN THEN mp_hal_pin_open_drain(st, id)
    ELSE mp_hal_pin_input(st, id)

\* the test that raises "OUT incompatible with pull"
PullRejected(st, id, pull) == IsDirectionOut(st, id) /\ pull # None

InitArgs == [mode : OptInt(IntArgs), pull : OptInt({GPIO_PULL_OFF, GPIO_PULL_UP, GPIO_PULL_DOWN}),
             value : OptInt({0, 1}), drive : IntArgs]

machine_pin_obj_init_helper(self, a) ==
    LET st1 == InitValue(PinState, self, a.value)
        st2 == InitMode(st1, self, a.mode)
        strength == ToBool(a.drive)
    IN
    /\ IF PullRejected(st2, self, a.pull) THEN
          /\ SetPinState(st2)
          /\ last' = [op |-> "machine_pin_obj_init_helper", pin |-> self, args |-> a,
                      err |-> "OUT incompatible with pull"]
       ELSE
          /\ SetPinState(IF a.pull # None
                         THEN gpio_set_pin_pull_mode(st2, self, a.pull[1]) ELSE st2)
          /\ last' = [op |-> "machine_pin_obj_init_helper", pin |-> self, args |-> a,
                      err |-> IF pin_validate_drive(strength)
                              THEN "invalid argument(s) value" ELSE ""]
    /\ UNCHANGED <<mcu, call, irqvars>>

\* Pin.drive([strength])
machine_pin_drive(self, level) ==
    LET strength == ToBool(level[1])
    IN
    /\ IF level = None THEN
          /\ UNCHANGED gpiovars
          /\ last' = [op |-> "machine_pin_drive", pin |-> self, level |-> level, err |-> ""]
       ELSE IF pin_validate_drive(strength) THEN
          /\ UNCHANGED gpiovars
          /\ last' = [op |-> "machine_pin_drive", pin |-> self, level |-> level,
                      err |-> "invalid argument(s) value"]
       ELSE
          /\ pin_drvstr' = [pin_drvstr EXCEPT ![self] = strength]
          /\ UNCHANGED <<pin_dir, pin_out, pin_pull, open_drain_mask>>
          /\ last' = [op |-> "machine_pin_drive", pin |-> self, level |-> level, err |-> ""]
    /\ UNCHANGED <<mcu, call, irqvars>>

\* Pin.__call__(value) / Pin.value(value): set pin
machine_pin_call(self, value) ==
    /\ SetPinState(IF GPIO_IS_OPEN_DRAIN(open_drain_mask, self)
                   THEN (IF value = 0 THEN mp_hal_pin_od_low(PinState, self)
                                      ELSE mp_hal_pin_od_high(PinState, self))
                   ELSE mp_hal_pin_write(PinState, self, value))
    /\ last' = [op |-> "machine_pin_call", pin |-> self, value |-> value, err |-> ""]
    /\ UNCHANGED <<mcu, call, irqvars>>

\* Pin.low() / Pin.off()
machine_pin_low(self) ==
    /\ SetPinState(IF GPIO_IS_OPEN_DRAIN(open_drain_mask, self)
                   THEN mp_hal_pin_od_low(PinState, self)
                   ELSE mp_hal_pin_write(PinState, self, 0))
    /\ last' = [op |-> "machine_pin_low", pin |-> self, err |-> ""]
    /\ UNCHANGED <<mcu, call, irqvars>>

\* Pin.high() / Pin.on()
machine_pin_high(self) ==
    /\ SetPinState(IF GPIO_IS_OPEN_DRAIN(open_drain_mask, self)
                   THEN mp_hal_pin_od_high(PinState, self)
                   ELSE mp_hal_pin_write(PinState, self, 1))
    /\ last' = [op |-> "machine_pin_high", pin |-> self, err |-> ""]
    /\ UNCHANGED <<mcu, call, irqvars>>

\* Pin.toggle()
machine_pin_toggle(self) ==
    LET pin_dir_bool == ToBool(mp_hal_get_pin_direction(PinState, self))
    IN
    /\ SetPinState(IF GPIO_IS_OPEN_DRAIN(open_drain_mask, self)
                   THEN (IF pin_dir_bool # 0 THEN mp_hal_pin_od_high(PinState, self)
                                             ELSE mp_hal_pin_od_low(PinState, self))
                   ELSE gpio_toggle_pin_level(PinState, self))
    /\ last' = [op |-> "machine_pin_toggle", pin |-> self, err |-> ""]
    /\ UNCHANGED <<mcu, call, irqvars>>

\* the requests the pin protocol is called with: read, write, an unknown one
IoctlRequests == {MP_PIN_READ, MP_PIN_WRITE, 0}

\* pin_ioctl(self, request, arg, errcode)
pin_ioctl(self, request, arg) ==
    /\ SetPinState(IF request = MP_PIN_WRITE
                   THEN mp_hal_pin_write(PinState, self, arg)
                   ELSE PinState)
    /\ last' = [op |-> "pin_ioctl", pin |-> self, request |-> request, arg |-> arg,
                ret |-> IF request = MP_PIN_READ THEN mp_hal_pin_read(PinState, self)
                        ELSE IF request = MP_PIN_WRITE THEN {0}
                        ELSE {-1},
                err |-> ""]
    /\ UNCHANGED <<mcu, call, irqvars>>

\* Pin.disable()
machine_pin_disable(self) ==
    /\ pin_dir' = [pin_dir EXCEPT ![self] = "OFF"]
    /\ UNCHANGED <<pin_out, pin_pull, open_drain_mask, pin_drvstr>>
    /\ last' = [op |-> "machine_pin_disable", pin |-> self, err |-> ""]
    /\ UNCHANGED <<mcu, call, irqvars>>

\* ------------------------------------------------------------------------
\* Specification of the interrupt subsystem
GpioInit ==
    /\ pin_dir = [p \in PinIds |-> "IN"]
    /\ pin_out = [p \in PinIds |-> 0]
    /\ pin_pull = [p \in PinIds |-> GPIO_PULL_OFF]
    /\ open_drain_mask = {}
    /\ pin_drvstr = [p \in PinIds |-> 0]

IrqInit ==
    /\ machine_pin_irq_objects = [i \in Lines |-> NULL]
    /\ INTEN = {}
    /\ INTFLAG = {}
    /\ CONFIG = [i \in 0..1 |-> [j \in 0..7 |-> 0]]
    /\ ENABLE = FALSE
    /\ NVIC = {}

Init ==
    /\ mcu \in MCUs
    /\ IrqInit
    /\ GpioInit
    /\ call = Idle
    /\ last = [op |-> "reset"]

\* Three pins on two lines, called with the basic arguments.
Next ==
    \/ \E self \in PinIds, a \in BasicIrqArgs : machine_pin_irq(self, a)
    \/ \E self \in PinIds, t \in BasicTriggers : machine_pin_irq_trigger(self, t)
    \/ pin_irq_deinit_all
    \/ EIC_Handler
    \/ \E l \in Lines : EdgeEvent(l)

Spec == Init /\ [][Next]_vars

\* The two pins of one line, called with every argument combination.
NextLine ==
    \/ \E self \in LinePins, a \in IrqArgs : machine_pin_irq(self, a)
    \/ \E self \in LinePins, t \in Triggers : machine_pin_irq_trigger(self, t)
    \/ pin_irq_deinit_all
    \/ EIC_Handler
    \/ \E l \in Lines : EdgeEvent(l)

SpecLine == Init /\ [][NextLine]_vars

\* ------------------------------------------------------------------------
\* Specification of the direction/level driver, on one pin
GpioPins == {2}

NextPin ==
    \/ \E self \in GpioPins, a \in InitArgs : machine_pin_obj_init_helper(self, a)
    \/ \E self \in GpioPins, l \in OptInt(IntArgs) : machine_pin_drive(self, l)
    \/ \E self \in GpioPins, v \in {0, 1} : machine_pin_call(self, v)
    \/ \E self \in GpioPins : machine_pin_low(self)
    \/ \E self \in GpioPins : machine_pin_high(self)
    \/ \E self \in GpioPins : machine_pin_disable(self)
    \/ \E self \in GpioPins : machine_pin_toggle(self)
    \/ \E self \in GpioPins, r \in IoctlRequests, v \in {0, 1} : pin_ioctl(self, r, v)

\* the driver does not depend on the MCU variant
InitPin == Init /\ mcu = "SAMD51"

SpecPin == InitPin /\ [][NextPin]_vars

\* ------------------------------------------------------------------------
\* The configuration calls statement by statement, EIC_Handler preempting
\* between any two statements
NVIC_DisableIRQ(nvic, n) == nvic \ {n}
NVIC_EnableIRQ(nvic, n) == nvic \cup {n}

\* variant: the EIC is left enabled during the update
EicDisable_Skipped(enable) == enable

\* EIC->CTRL(A).bit.ENABLE = 0
EicDisable(enable) == FALSE

\* thread code executes its next statement only when no interrupt is
\* requested: a requested interrupt is taken first
ThreadRuns == ~EicInterruptRequested

\* the statement the call in progress is at
At(op, pc) == call.op = op /\ call.pc = pc
Goto(pc) == call' = [call EXCEPT !.pc = pc]

\* the irq object the call in progress works on
CallObj == machine_pin_irq_objects[call.eic_id]
SetCallObj(irq) ==
    machine_pin_irq_objects' = [machine_pin_irq_objects EXCEPT ![call.eic_id] = irq]

\* entry of machine_pin_irq up to the test of the arguments: lookup, the
\* "IRQ already used" test and the allocation
machine_pin_irq_entry(self, a) ==
    LET eic_id == pin_eic(self)
        irq0 == machine_pin_irq_objects[eic_id]
    IN
    /\ call = Idle
    /\ IF IrqAlreadyUsed(irq0, self) THEN
          /\ last' = [op |-> "machine_pin_irq", pin |-> self, args |-> a,
                      prior |-> irq0, err |-> "IRQ already used"]
          /\ UNCHANGED <<call, machine_pin_irq_objects>>
       ELSE
          \E f \in (IF irq0 = NULL THEN UninitValues ELSE {0}),
             t \in (IF irq0 = NULL THEN UninitValues ELSE {0}) :
          /\ machine_pin_irq_objects' =
                [machine_pin_irq_objects EXCEPT
                    ![eic_id] = IF irq0 = NULL THEN NewIrqObj(self, f, t) ELSE irq0]
          /\ IF a.given THEN
                /\ call' = [op |-> "machine_pin_irq", pc |-> "NVIC_DisableIRQ",
                            pin |-> self, args |-> a, eic_id |-> eic_id, prior |-> irq0]
                /\ UNCHANGED last
             ELSE
                /\ last' = [op |-> "machine_pin_irq", pin |-> self, args |-> a,
                            prior |-> irq0, err |-> ""]
                /\ UNCHANGED call
    /\ UNCHANGED <<mcu, INTEN, INTFLAG, CONFIG, ENABLE, NVIC, gpiovars>>

\* "Disable all IRQs from the affected source while data is updated.",
\* "Disable EIC", and the two INTENCLR writes
machine_pin_irq_disable ==
    /\ \/ /\ At("machine_pin_irq", "NVIC_DisableIRQ")
          /\ NVIC' = NVIC_DisableIRQ(NVIC, irq_num(mcu, call.eic_id))
          /\ Goto("ENABLE = 0")
          /\ UNCHANGED <<ENABLE, INTEN>>
       \/ /\ At("machine_pin_irq", "ENABLE = 0")
          /\ ENABLE' = EicDisable(ENABLE)
          /\ Goto("INTENCLR")
          /\ UNCHANGED <<NVIC, INTEN>>
       \/ /\ At("machine_pin_irq", "INTENCLR")
          /\ INTEN' = WriteINTENCLR(INTEN, Bit(call.eic_id))
          /\ Goto("INTENCLR again")
          /\ UNCHANGED <<NVIC, ENABLE>>
       \/ /\ At("machine_pin_irq", "INTENCLR again")
          /\ INTEN' = WriteINTENCLR(INTEN, Bit(call.eic_id))
          /\ Goto("handler")
          /\ UNCHANGED <<NVIC, ENABLE>>
    /\ UNCHANGED <<mcu, machine_pin_irq_objects, INTFLAG, CONFIG, gpiovars, last>>

\* "Update IRQ data.", one assignment at a time
machine_pin_irq_update ==
    /\ \/ /\ At("machine_pin_irq", "handler")
          /\ SetCallObj([CallObj EXCEPT !.handler = call.args.handler])
          /\ Goto("ishard")
       \/ /\ At("machine_pin_irq", "ishard")
          /\ SetCallObj([CallObj EXCEPT !.ishard = call.args.hard])
          /\ Goto("flags")
       \/ /\ At("machine_pin_irq", "flags")
          /\ SetCallObj([CallObj EXCEPT !.flags = 0])
          /\ Goto("trigger")
       \/ /\ At("machine_pin_irq", "trigger")
          /\ SetCallObj([CallObj EXCEPT !.trigger = call.args.trigger])
          /\ Goto("pin_id")
       \/ /\ At("machine_pin_irq", "pin_id")
          /\ SetCallObj([CallObj EXCEPT !.pin_id = call.pin])
          /\ Goto(IF call.args.handler # mp_const_none THEN "CONFIG" ELSE "ENABLE = 1")
    /\ UNCHANGED <<mcu, INTEN, INTFLAG, CONFIG, ENABLE, NVIC, gpiovars, last>>

\* "Enable IRQ if a handler is given."
machine_pin_irq_arm ==
    /\ \/ /\ At("machine_pin_irq", "CONFIG")
          /\ CONFIG' = SetChannelMode(CONFIG, call.eic_id, CallObj.trigger)
          /\ Goto("INTENSET")
          /\ UNCHANGED <<INTEN, INTFLAG>>
       \/ /\ At("machine_pin_irq", "INTENSET")
          /\ INTEN' = EnableLine(INTEN, call.eic_id)
          /\ Goto("INTFLAG")
          /\ UNCHANGED <<CONFIG, INTFLAG>>
       \/ /\ At("machine_pin_irq", "INTFLAG")
          /\ INTFLAG' = ClearFlagRMW(INTFLAG, Bit(call.eic_id))
          /\ Goto("ENABLE = 1")
          /\ UNCHANGED <<CONFIG, INTEN>>
    /\ UNCHANGED <<mcu, machine_pin_irq_objects, ENABLE, NVIC, gpiovars, last>>

\* "Enable EIC (again)", "Enable interrupt again" and the return
machine_pin_irq_enable ==
    /\ \/ /\ At("machine_pin_irq", "ENABLE = 1")
          /\ ENABLE' = TRUE
          /\ Goto("NVIC_EnableIRQ")
          /\ UNCHANGED <<NVIC, last>>
       \/ /\ At("machine_pin_irq", "NVIC_EnableIRQ")
          /\ NVIC' = NVIC_EnableIRQ(NVIC, irq_num(mcu, call.eic_id))
          /\ call' = Idle
          /\ last' = [op |-> "machine_pin_irq", pin |-> call.pin, args |-> call.args,
                      prior |-> call.prior, err |-> ""]
          /\ UNCHANGED ENABLE
    /\ UNCHANGED <<mcu, machine_pin_irq_objects, INTEN, INTFLAG, CONFIG, gpiovars>>

\* entry of machine_pin_irq_trigger: find_eic_id
machine_pin_irq_trigger_entry(self, new_trigger) ==
    LET eic_id == find_eic_id(machine_pin_irq_objects, self)
    IN
    /\ call = Idle
    /\ IF eic_id # PIN_ID_UNBOUND THEN
          /\ call' = [op |-> "machine_pin_irq_trigger", pc |-> "INTENCLR",
                      pin |-> self, new_trigger |-> new_trigger, eic_id |-> eic_id]
          /\ UNCHANGED last
       ELSE
          /\ last' = [op |-> "machine_pin_irq_trigger", pin |-> self,
                      new_trigger |-> new_trigger]
          /\ UNCHANGED call
    /\ UNCHANGED <<mcu, irqvars, gpiovars>>

\* the four statements of machine_pin_irq_trigger
machine_pin_irq_trigger_step ==
    /\ \/ /\ At("machine_pin_irq_trigger", "INTENCLR")
          /\ INTEN' = MaskLineRMW(INTEN, call.eic_id)
          /\ Goto("flags")
          /\ UNCHANGED <<machine_pin_irq_objects, last>>
       \/ /\ At("machine_pin_irq_trigger", "flags")
          /\ SetCallObj([CallObj EXCEPT !.flags = 0])
          /\ Goto("trigger")
          /\ UNCHANGED <<INTEN, last>>
       \/ /\ At("machine_pin_irq_trigger", "trigger")
          /\ SetCallObj([CallObj EXCEPT !.trigger = call.new_trigger])
          /\ Goto("INTENSET")
          /\ UNCHANGED <<INTEN, last>>
       \/ /\ At("machine_pin_irq_trigger", "INTENSET")
          /\ INTEN' = UnmaskLineRMW(INTEN, call.eic_id)
          /\ call' = Idle
          /\ last' = [op |-> "machine_pin_irq_trigger", pin |-> call.pin,
                      new_trigger |-> call.new_trigger]
          /\ UNCHANGED machine_pin_irq_objects
    /\ UNCHANGED <<mcu, INTFLAG, CONFIG, ENABLE, NVIC, gpiovars>>

\* a pin of line 2 and a pin of line 8
StepPins == {2, 40}

NextStep ==
    \/ /\ ThreadRuns
       /\ \/ \E self \in StepPins, a \in BasicIrqArgs : machine_pin_irq_entry(self, a)
          \/ machine_pin_irq_disable
          \/ machine_pin_irq_update
          \/ machine_pin_irq_arm
          \/ machine_pin_irq_enable
          \/ \E self \in StepPins, t \in BasicTriggers : machine_pin_irq_trigger_entry(self, t)
          \/ machine_pin_irq_trigger_step
          \/ call = Idle /\ pin_irq_deinit_all
    \/ EIC_Handler
    \/ \E l \in Lines : EdgeEvent(l)

SpecStep == Init /\ [][NextStep]_vars

\* ------------------------------------------------------------------------
\* Properties
MinOf(S) == CHOOSE x \in S : \A y \in S : x <= y

\* the irq object of the line the pin of the last call is wired to
LastObj == machine_pin_irq_objects[pin_eic(last.pin)]

IrqCall == last.op = "machine_pin_irq"
IrqCallDone == last'.op = "machine_pin_irq"

\* C1: while a line is bound to pin A, pin.irq() by another pin B of the same
\* line raises "IRQ already used" and changes neither the registry nor any
\* controller register; and short of pin_irq_deinit_all the owner of a bound
\* line is never replaced by a different pin.
C1_ConflictRejected ==
    [][ /\ ( /\ IrqCallDone
             /\ last'.prior # NULL
             /\ last'.prior.pin_id \in PinIds \ {last'.pin} )
           => (last'.err = "IRQ already used" /\ UNCHANGED irqvars)
        /\ \A i \in Lines :
             ( /\ machine_pin_irq_objects[i] # NULL
               /\ machine_pin_irq_objects[i].pin_id \in PinIds
               /\ last'.op # "pin_irq_deinit_all" )
             => ( /\ machine_pin_irq_objects'[i] # NULL
                  /\ machine_pin_irq_objects'[i].pin_id = machine_pin_irq_objects[i].pin_id )
      ]_vars

\* C1 witness: pin B asked for an armed line owned by pin A, with a handler,
\* and was refused.
C1_Witness ==
    /\ IrqCall
    /\ last.err = "IRQ already used"
    /\ last.args.given
    /\ last.args.handler # mp_const_none
    /\ last.prior.pin_id \in PinIds \ {last.pin}
    /\ LastObj = last.prior
    /\ pin_eic(last.pin) \in INTEN

\* C2: once a pin's first pin.irq() without arguments has allocated an unbound
\* record for its line, every later pin.irq() of that pin succeeds.
C2_DefaultRequestRepeatable ==
    ( /\ IrqCall
      /\ last.prior # NULL
      /\ last.prior.pin_id = PIN_ID_UNBOUND
      /\ last.prior.parent = last.pin )
    => last.err = ""

\* C3: with at least two lines pending, one entry of EIC_Handler services the
\* lowest pending line, clears its pending bit and leaves every other pending
\* bit set.
C3_DispatchClearsOnlyLowest ==
    ( /\ last.op = "EIC_Handler"
      /\ Cardinality(last.isr) >= 2 )
    => ( /\ MinOf(last.isr) \notin INTFLAG
         /\ (last.isr \ {MinOf(last.isr)}) \subseteq INTFLAG
         /\ \A k \in 1..Len(last.serviced) : last.serviced[k] = MinOf(last.isr) )

\* C4 as claimed: when the lowest pending line has no record, the entry
\* invokes no handler at all and the line's pending bit is cleared.
C4_OrphanStopsDispatch ==
    ( /\ last.op = "EIC_Handler"
      /\ last.isr # {}
      /\ machine_pin_irq_objects[MinOf(last.isr)] = NULL )
    => ( /\ last.invoked = <<>>
         /\ MinOf(last.isr) \notin INTFLAG )

\* the pending lines of the last entry that have a record
LastPendingWithRecord == {l \in last.isr : machine_pin_irq_objects[l] # NULL}

\* C4 as amended: when the lowest pending line has no record, its pending bit
\* is cleared and no handler is invoked for it; the scan goes on and the
\* entry services the lowest pending line that has a record, and only that
\* one, invoking its handler if it has one.
C4_OrphanSkipped ==
    ( /\ last.op = "EIC_Handler"
      /\ last.isr # {}
      /\ machine_pin_irq_objects[MinOf(last.isr)] = NULL )
    => ( /\ MinOf(last.isr) \notin INTFLAG
         /\ \A k \in 1..Len(last.invoked) : last.invoked[k].eic_id # MinOf(last.isr)
         /\ IF LastPendingWithRecord = {}
            THEN last.serviced = <<>> /\ last.invoked = <<>>
            ELSE LET l == MinOf(LastPendingWithRecord)
                     irq == machine_pin_irq_objects[l]
                 IN  /\ last.serviced = <<l>>
                     /\ irq.flags = irq.trigger
                     /\ IF irq.handler = mp_const_none
                        THEN last.invoked = <<>>
                        ELSE /\ Len(last.invoked) = 1
                             /\ last.invoked[1].eic_id = l
                             /\ last.invoked[1].handler = irq.handler )

\* C4 witness: the lowest pending line had no record and the handler of a
\* higher pending line was invoked.
C4_Witness ==
    /\ last.op = "EIC_Handler"
    /\ last.isr # {}
    /\ machine_pin_irq_objects[MinOf(last.isr)] = NULL
    /\ last.invoked # <<>>

\* the owner of a line with a registered handler calls pin.irq(trigger=t)
\* with a trigger other than the configured one
OwnerChangedTriggerOnly ==
    /\ IrqCall
    /\ last.err = ""
    /\ last.prior # NULL
    /\ last.prior.pin_id = last.pin
    /\ last.prior.handler # mp_const_none
    /\ last.args.given
    /\ last.args.handler = mp_const_none
    /\ last.args.hard = FALSE
    /\ last.args.trigger # last.prior.trigger

\* C5 as claimed: re-requesting with only a different trigger sets the
\* trigger, empties the latched flags and keeps handler, hard flag and owner.
C5_OnlyTriggerUpdated ==
    OwnerChangedTriggerOnly
    => ( /\ LastObj.trigger = last.args.trigger
         /\ LastObj.flags = 0
         /\ LastObj.handler = last.prior.handler
         /\ LastObj.ishard = last.prior.ishard
         /\ LastObj.pin_id = last.prior.pin_id )

\* C5 as amended: re-requesting with only a different trigger sets the
\* trigger, empties the latched flags and keeps the owner; the handler and
\* the hard flag take the defaults of the omitted arguments (None, soft).
C5_TriggerUpdatedRestDefault ==
    OwnerChangedTriggerOnly
    => ( /\ LastObj.trigger = last.args.trigger
         /\ LastObj.flags = 0
         /\ LastObj.pin_id = last.prior.pin_id
         /\ LastObj.handler = mp_const_none
         /\ LastObj.ishard = FALSE )

\* C5 witness: such a call on a hard-handler record whose flags were latched.
C5_Witness ==
    /\ OwnerChangedTriggerOnly
    /\ last.prior.ishard
    /\ last.prior.flags # 0

RegistryEmpty == \A i \in Lines : machine_pin_irq_objects[i] = NULL

InfoAllZero ==
    \A p \in PinIds, k \in {MP_IRQ_INFO_FLAGS, MP_IRQ_INFO_TRIGGERS} :
        machine_pin_irq_info(machine_pin_irq_objects, p, k) = 0

\* C6: after pin_irq_deinit_all the registry holds no record for any line and
\* the info method returns 0 for every pin and both kinds, until the next
\* pin.irq() call; also when no line was configured.
C6_TeardownEmptiesRegistry ==
    [][ /\ last'.op = "pin_irq_deinit_all" => (RegistryEmpty' /\ InfoAllZero')
        /\ (RegistryEmpty /\ last'.op # "machine_pin_irq") => (RegistryEmpty' /\ InfoAllZero')
      ]_vars

\* C6 witness: a teardown that followed the arming of line 8 and of line 2.
C6_Witness ==
    /\ last.op = "pin_irq_deinit_all"
    /\ RegistryEmpty
    /\ SenseField(CONFIG, 8) # 0
    /\ SenseField(CONFIG, 2) # 0

\* C7: after pin_irq_deinit_all every line is masked at the EIC and the NVIC
\* entry of every line is disabled, on both MCU variants.
C7_TeardownMasksEveryLine ==
    last.op = "pin_irq_deinit_all"
    => ( /\ INTEN = {}
         /\ \A l \in Lines : irq_num(mcu, l) \notin NVIC )

\* the owner of a line with a registered handler calls pin.irq(None)
OwnerPassedNullHandler(l) ==
    /\ l.op = "machine_pin_irq"
    /\ l.err = ""
    /\ l.prior # NULL
    /\ l.prior.pin_id = l.pin
    /\ l.prior.handler # mp_const_none
    /\ l.args.given
    /\ l.args.handler = mp_const_none

\* C8 as claimed (state part): after the owner's pin.irq(None) on an armed
\* line the line's enable bit is clear, its sense field is 0 and the record is
\* still there with that owner.
C8_NullHandlerDisablesSense ==
    OwnerPassedNullHandler(last)
    => ( /\ pin_eic(last.pin) \notin INTEN
         /\ SenseField(CONFIG, pin_eic(last.pin)) = 0
         /\ LastObj # NULL
         /\ LastObj.pin_id = last.pin )

\* C8 as amended: after the owner's pin.irq(None) on an armed line the line's
\* enable bit is clear, CONFIG is as it was, the record is still there with
\* that owner; a dispatch invokes a handler only for a record whose handler is
\* not None, and a None handler is replaced only by pin.irq() with a handler.
C8_NullHandlerMasksLine ==
    [][ /\ OwnerPassedNullHandler(last')
           => ( /\ pin_eic(last'.pin) \notin INTEN'
                /\ CONFIG' = CONFIG
                /\ machine_pin_irq_objects'[pin_eic(last'.pin)] # NULL
                /\ machine_pin_irq_objects'[pin_eic(last'.pin)].pin_id = last'.pin
                /\ machine_pin_irq_objects'[pin_eic(last'.pin)].handler = mp_const_none )
        /\ last'.op = "EIC_Handler"
           => \A k \in 1..Len(last'.invoked) :
                /\ machine_pin_irq_objects[last'.invoked[k].eic_id] # NULL
                /\ machine_pin_irq_objects[last'.invoked[k].eic_id].handler # mp_const_none
        /\ \A i \in Lines :
             ( /\ machine_pin_irq_objects[i] # NULL
               /\ machine_pin_irq_objects[i].handler = mp_const_none
               /\ machine_pin_irq_objects'[i] # NULL
               /\ machine_pin_irq_objects'[i].handler # mp_const_none )
             => (IrqCallDone /\ last'.args.handler # mp_const_none)
      ]_vars

\* C8 witness: pin.irq(None) by the owner of an armed line; the sense field
\* is still programmed.
C8_Witness ==
    /\ OwnerPassedNullHandler(last)
    /\ pin_eic(last.pin) \notin INTEN
    /\ SenseField(CONFIG, pin_eic(last.pin)) # 0

\* C9: Pin.drive(level) succeeds only for level 0 and 1; for any other integer
\* it raises "invalid argument(s) value" and leaves DRVSTR as it was.
C9_DriveRejectsOtherLevels ==
    [][ ( /\ last'.op = "machine_pin_drive"
          /\ last'.level # None
          /\ last'.level[1] \notin {GPIO_STRENGTH_2MA, GPIO_STRENGTH_8MA} )
        => ( /\ last'.err = "invalid argument(s) value"
             /\ pin_drvstr' = pin_drvstr )
      ]_vars

\* C10: a Pin.init rejected with "OUT incompatible with pull" changes neither
\* the output level, nor the direction, nor the open-drain flag, nor the pull.
C10_RejectedInitChangesNothing ==
    [][ ( /\ last'.op = "machine_pin_obj_init_helper"
          /\ last'.err = "OUT incompatible with pull" )
        => UNCHANGED <<pin_out, pin_dir, open_drain_mask, pin_pull>>
      ]_vars

\* the pin is configured as an output: driven push-pull, or in simulated
\* open-drain mode (driving low or releasing the line)
ConfiguredAsOutput(id) ==
    IF GPIO_IS_OPEN_DRAIN(open_drain_mask, id) THEN pin_dir[id] # "OFF"
    ELSE pin_dir[id] = "OUT"

\* C11: Pin.toggle() on a pin configured as output, push-pull or simulated
\* open-drain, always changes the level the pin is observed at (so that two
\* toggles return it to the original level).
C11_ToggleChangesLevel ==
    [][ ( /\ last'.op = "machine_pin_toggle"
          /\ ConfiguredAsOutput(last'.pin)
          /\ Cardinality(mp_hal_pin_read(PinState, last'.pin)) = 1 )
        => mp_hal_pin_read(PinState, last'.pin) \cap mp_hal_pin_read(PinState', last'.pin) = {}
      ]_vars

\* the statements of the two calls that write a field of the irq object
IrqWrites == {"handler", "ishard", "flags", "trigger", "pin_id"}
TriggerWrites == {"flags", "trigger"}

\* the call in progress has written some, not all, of the fields it updates
\* in the irq object of line l
HalfUpdated(l) ==
    \/ /\ call.op = "machine_pin_irq"
       /\ call.eic_id = l
       /\ call.pc \in IrqWrites \ {"handler"}
    \/ /\ call.op = "machine_pin_irq_trigger"
       /\ call.eic_id = l
       /\ call.pc = "trigger"

\* C12: with EIC_Handler able to run between any two statements, pin.irq()
\* writes the fields of an existing irq object only while the line's NVIC
\* interrupt is disabled, the trigger method only while the line's INTEN bit
\* is clear, and no entry of EIC_Handler services a line whose irq object is
\* half updated.
C12_UpdateWhileMasked ==
    [][ /\ ( /\ call.op = "machine_pin_irq"
             /\ call.pc \in IrqWrites
             /\ call.prior # NULL )
           => irq_num(mcu, call.eic_id) \notin NVIC
        /\ ( /\ call.op = "machine_pin_irq_trigger"
             /\ call.pc \in TriggerWrites )
           => call.eic_id \notin INTEN
        /\ EIC_Handler
           => \A k \in 1..Len(last'.serviced) : ~HalfUpdated(last'.serviced[k])
      ]_vars

\* C12 witness: EIC_Handler preempted a pin.irq() call that reconfigures an
\* existing irq object, and serviced that very line.
C12_Witness ==
    /\ call.op = "machine_pin_irq"
    /\ call.prior # NULL
    /\ last.op = "EIC_Handler"
    /\ last.serviced = <<call.eic_id>>

\* pin.irq() with a handler has just returned without raising
ArmedBy(l) ==
    /\ l.op = "machine_pin_irq"
    /\ l.err = ""
    /\ l.args.given
    /\ l.args.handler # mp_const_none

\* C13: after pin.irq(handler, trigger) with a real handler the sense field of
\* the pin's line holds exactly the trigger, whatever the line was programmed
\* with before, the line's INTEN bit is set, and the sense fields of the
\* other lines are as they were.
C13_SenseFieldIsTrigger ==
    [][ ArmedBy(last')
        => ( /\ SenseField(CONFIG', pin_eic(last'.pin)) = last'.args.trigger
             /\ pin_eic(last'.pin) \in INTEN'
             /\ \A k \in Lines \ {pin_eic(last'.pin)} :
                    SenseField(CONFIG', k) = SenseField(CONFIG, k) )
      ]_vars

\* C14: a reconfiguring pin.irq() on line L leaves the INTEN bit and the
\* pending flag of every other line as they were: an event pending on another
\* line is not lost.
C14_OtherLinesUntouched ==
    [][ ( /\ IrqCallDone
          /\ last'.err = ""
          /\ last'.args.given )
        => \A k \in Lines \ {pin_eic(last'.pin)} :
              /\ (k \in INTEN') = (k \in INTEN)
              /\ (k \in INTFLAG') = (k \in INTFLAG)
      ]_vars

\* C15: the trigger method of a pin that owns a line sets that record's
\* trigger, empties its flags, keeps its handler, hard flag and owner, and
\* leaves every other record and every other line's INTEN bit as they were;
\* for a pin that owns no line it changes nothing.
C15_TriggerTouchesOwnLineOnly ==
    [][ last'.op = "machine_pin_irq_trigger"
        => LET l == find_eic_id(machine_pin_irq_objects, last'.pin)
           IN  IF l = PIN_ID_UNBOUND THEN UNCHANGED irqvars
               ELSE /\ machine_pin_irq_objects'[l] =
                          [machine_pin_irq_objects[l] EXCEPT
                              !.flags = 0, !.trigger = last'.new_trigger]
                    /\ \A k \in Lines \ {l} :
                          /\ machine_pin_irq_objects'[k] = machine_pin_irq_objects[k]
                          /\ (k \in INTEN') = (k \in INTEN)
      ]_vars

\* line l is armed: enabled, with an irq object that has a handler
Armed(l) ==
    /\ l \in INTEN
    /\ machine_pin_irq_objects[l] # NULL
    /\ machine_pin_irq_objects[l].handler # mp_const_none

\* C16: when several armed lines are pending, an entry of EIC_Handler
\* services one of them and leaves the others pending for the next entries:
\* no pending event of an armed line is dropped, its flag is cleared only by
\* the entry that invokes its handler.
C16_NoPendingEventDropped ==
    [][ EIC_Handler
        => \A l \in INTFLAG :
              Armed(l)
              => \/ l \in INTFLAG'
                 \/ \E k \in 1..Len(last'.invoked) : last'.invoked[k].eic_id = l
      ]_vars

\* C17: an entry of EIC_Handler that services a line with an irq object
\* leaves the line's pending flag clear and the object's flags equal to its
\* trigger, and calls mp_irq_handler once: a bound handler runs once, after
\* the latch, and sees flags equal to the trigger; so does the info method.
C17_LatchThenInvoke ==
    [][ (EIC_Handler /\ last'.serviced # <<>>)
        => LET l == last'.serviced[1]
               irq == machine_pin_irq_objects[l]
               irq1 == machine_pin_irq_objects'[l]
           IN  /\ Len(last'.serviced) = 1
               /\ irq # NULL
               /\ l \notin INTFLAG'
               /\ irq1 = [irq EXCEPT !.flags = irq.trigger]
               /\ IF irq.handler = mp_const_none THEN last'.invoked = <<>>
                  ELSE /\ Len(last'.invoked) = 1
                       /\ last'.invoked[1].eic_id = l
                       /\ last'.invoked[1].handler = irq.handler
                       /\ last'.invoked[1].flags = irq.trigger
               /\ \A p \in PinIds :
                     pin_eic(p) = l
                     => machine_pin_irq_info(machine_pin_irq_objects', p, MP_IRQ_INFO_FLAGS)
                        = machine_pin_irq_info(machine_pin_irq_objects', p, MP_IRQ_INFO_TRIGGERS)
      ]_vars

\* C17 witness: a hard handler bound for the falling edge was run by an entry
\* and saw the falling edge latched; the info method returns it.
C17_Witness ==
    /\ last.op = "EIC_Handler"
    /\ last.serviced = <<2>>
    /\ Len(last.invoked) = 1
    /\ last.invoked[1].ishard
    /\ last.invoked[1].flags = GPIO_IRQ_EDGE_FALL
    /\ machine_pin_irq_info(machine_pin_irq_objects, last.invoked[1].parent,
                            MP_IRQ_INFO_FLAGS) = GPIO_IRQ_EDGE_FALL

\* the level the last operation asks for: 0, 1, or either one for a toggle;
\* empty when the operation changes no level
RequestedLevels(l) ==
    IF l.op = "machine_pin_call" THEN {l.value}
    ELSE IF l.op = "machine_pin_low" THEN {0}
    ELSE IF l.op = "machine_pin_high" THEN {1}
    ELSE IF l.op = "machine_pin_toggle" THEN {0, 1}
    ELSE IF l.op = "pin_ioctl" /\ l.request = MP_PIN_WRITE THEN {l.arg}
    ELSE IF /\ l.op = "machine_pin_obj_init_helper"
            /\ l.args.value # None /\ l.args.mode = None /\ l.args.pull = None
         THEN {ToBool(l.args.value[1])}
    ELSE {}

\* the simulated open-drain sequence for level v
OpenDrainSequence(st, id, v) ==
    IF v = 0 THEN mp_hal_pin_od_low(st, id) ELSE mp_hal_pin_od_high(st, id)

\* C18: while a pin's open-drain flag is set, every operation that changes
\* its level (value write, low, high, toggle, the initial value of init, the
\* ioctl write request) drives it low or releases it, and never writes the
\* level push-pull.
C18_OpenDrainSequenceOnly ==
    [][ ( /\ RequestedLevels(last') # {}
          /\ GPIO_IS_OPEN_DRAIN(open_drain_mask, last'.pin) )
        => \E v \in RequestedLevels(last') :
              PinState' = OpenDrainSequence(PinState, last'.pin, v)
      ]_vars

\* C19: in every reachable state a line's INTEN bit is set only if the line
\* has an irq object whose handler is not None.
C19_EnabledOnlyWithHandler ==
    \A l \in Lines :
        l \in INTEN
        => ( /\ machine_pin_irq_objects[l] # NULL
             /\ machine_pin_irq_objects[l].handler # mp_const_none )

\* the irq object of line l is bound to a pin
Bound(objs, l) == objs[l] # NULL /\ objs[l].pin_id # PIN_ID_UNBOUND

\* C20: the flags of a bound irq object are 0 or equal to its trigger; a
\* step that changes the trigger of a bound object leaves its flags 0, and
\* only EIC_Handler sets flags to a value other than 0.
C20_FlagsZeroOrTrigger ==
    [][ \A l \in Lines :
          Bound(machine_pin_irq_objects', l)
          => LET irq1 == machine_pin_irq_objects'[l]
                 irq == machine_pin_irq_objects[l]
             IN  /\ irq1.flags \in {0, irq1.trigger}
                 /\ (Bound(machine_pin_irq_objects, l) /\ irq1.trigger # irq.trigger)
                    => irq1.flags = 0
                 /\ (Bound(machine_pin_irq_objects, l) /\ irq1.flags # irq.flags
                       /\ irq1.flags # 0)
                    => EIC_Handler
      ]_vars

\* C20 witness: the trigger method has just set the trigger of a bound, armed
\* irq object to the falling edge while an event is pending on its line, and
\* the flags are 0.
C20_Witness ==
    /\ last.op = "machine_pin_irq_trigger"
    /\ Bound(machine_pin_irq_objects, pin_eic(last.pin))
    /\ LastObj.pin_id = last.pin
    /\ LastObj.trigger = GPIO_IRQ_EDGE_FALL
    /\ LastObj.flags = 0
    /\ LastObj.handler # mp_const_none
    /\ pin_eic(last.pin) \in INTFLAG

\* C21: a bound irq object stored at index i is owned by a pin wired to line
\* i, and no pin owns objects at two indices; so find_eic_id returns, for a
\* pin, either 0xff or the pin's own line, and it returns that line whenever
\* the object there is bound to the pin, as it is after the pin's pin.irq()
\* with arguments.
C21_OwnerStoredAtItsLine ==
    /\ \A i \in Lines :
          Bound(machine_pin_irq_objects, i)
          => ( /\ machine_pin_irq_objects[i].pin_id \in PinIds
               /\ pin_eic(machine_pin_irq_objects[i].pin_id) = i )
    /\ \A i, j \in Lines :
          ( /\ Bound(machine_pin_irq_objects, i)
            /\ Bound(machine_pin_irq_objects, j)
            /\ machine_pin_irq_objects[i].pin_id = machine_pin_irq_objects[j].pin_id )
          => i = j
    /\ \A p \in PinIds :
          /\ find_eic_id(machine_pin_irq_objects, p) \in {PIN_ID_UNBOUND, pin_eic(p)}
          /\ ( /\ Bound(machine_pin_irq_objects, pin_eic(p))
               /\ machine_pin_irq_objects[pin_eic(p)].pin_id = p )
             => find_eic_id(machine_pin_irq_objects, p) = pin_eic(p)
    /\ (IrqCall /\ last.err = "" /\ last.args.given)
       => find_eic_id(machine_pin_irq_objects, last.pin) = pin_eic(last.pin)

\* C21 witness: line 2 is bound to pin 18 and line 8 to pin 40, and the
\* lookup finds each of them at its line.
C21_Witness ==
    /\ Bound(machine_pin_irq_objects, 2)
    /\ Bound(machine_pin_irq_objects, 8)
    /\ find_eic_id(machine_pin_irq_objects, 18) = 2
    /\ find_eic_id(machine_pin_irq_objects, 40) = 8

====
